---- MODULE Spec2Model ----
(***************************************************************************)
(* Model of src/src/ico-editor.js (IcoEditor): the ICO container writer,   *)
(* the header / directory decoders and the size filter.                    *)
(*                                                                         *)
(* A Buffer is a sequence of bytes; byte offset o of the JavaScript code   *)
(* is index o + 1 of the sequence.  The destination stream is the sequence *)
(* of chunks handed to stream.write: chunk 0 is the header + directory     *)
(* block, chunk i >= 1 is the content of targets[i].                       *)
(*                                                                         *)
(* One call of write is followed through the event loop: the synchronous   *)
(* body, then the promise reactions (microtasks), then the completions of  *)
(* the Fs.readFile calls, in any order and with either outcome.            *)
(***************************************************************************)
EXTENDS Integers, Sequences, FiniteSets

VARIABLES
    targets,     \* argument of write: sequence of [size, statSize]
    destParent,  \* what Path.dirname(dest) is on disk: "dir" or "missing"
    cbThrows,    \* whether the caller's callback throws when invoked
    pc,          \* "start", "returned", "threw", "microtasks", "io"
    buffer,      \* header + directory block built by write
    stream,      \* "none", "open" or "closed"
    sink,        \* chunks passed to stream.write, in order
    tasks,       \* state of each writeImage promise
    chain,       \* pass-through reactions of the reduce chain already run
    handler,     \* "then", "catch" or "settled": next handler of the chain
    cbCalls,     \* arguments of the calls of cb, in order
    images,      \* argument of filter: [defined, value]
    filtered     \* result of filter: [returned, value]

vars == <<targets, destParent, cbThrows, pc, buffer, stream, sink, tasks,
          chain, handler, cbCalls, images, filtered>>

writerVars == <<targets, destParent, cbThrows, pc, buffer, stream, sink,
                tasks, chain, handler, cbCalls>>

(***************************************************************************)
(* Bounds of the model.                                                    *)
(***************************************************************************)
MaxTargets == 3
MaxImages == 3

TargetSizes == {16, 255, 256}
TargetByteLengths == {20, 500}
TargetRecords == [size : TargetSizes, statSize : TargetByteLengths]

ImageSizes == {16, 17, 256, 300}
ImagePaths == {"a", "b"}
ImageRecords == [size : ImageSizes, path : ImagePaths]

GarbageBytes == {0, 170}

SeqsUpTo(S, n) == UNION {[1..k -> S] : k \in 0..n}

(***************************************************************************)
(* Constants of the program.                                               *)
(***************************************************************************)
IcoImageSizes == <<16, 24, 32, 48, 64, 128, 256>>

IcoSpec == [headerSize |-> 6, directorySize |-> 16]

(***************************************************************************)
(* Buffer primitives (Node's Buffer, little endian).                       *)
(***************************************************************************)
newBuffer(n, garbage) == [k \in 1..n |-> garbage]

writeUInt8(buf, value, offset) == [buf EXCEPT ![offset + 1] = value]

writeUInt16LE(buf, value, offset) ==
    [buf EXCEPT ![offset + 1] = value % 256,
                ![offset + 2] = (value \div 256) % 256]

writeUInt32LE(buf, value, offset) ==
    [buf EXCEPT ![offset + 1] = value % 256,
                ![offset + 2] = (value \div 256) % 256,
                ![offset + 3] = (value \div 65536) % 256,
                ![offset + 4] = (value \div 16777216) % 256]

readUInt8(buf, offset) == buf[offset + 1]

readUInt16LE(buf, offset) == buf[offset + 1] + 256 * buf[offset + 2]

readUInt32LE(buf, offset) ==
    buf[offset + 1] + 256 * buf[offset + 2] + 65536 * buf[offset + 3]
        + 16777216 * buf[offset + 4]

(***************************************************************************)
(* Encoders and decoders of IcoEditor.                                     *)
(***************************************************************************)
writeHeader(buf, type, count) ==
    writeUInt16LE(writeUInt16LE(writeUInt16LE(buf, 0, 0), type, 2), count, 4)

writeDirectory(buf, offset, directory) ==
    LET b1 == writeUInt8(buf, directory.width, offset)
        b2 == writeUInt8(b1, directory.height, offset + 1)
        b3 == writeUInt8(b2, directory.colors, offset + 2)
        b4 == writeUInt8(b3, 0, offset + 3)
        b5 == writeUInt16LE(b4, directory.planes, offset + 4)
        b6 == writeUInt16LE(b5, directory.bpp, offset + 6)
        b7 == writeUInt32LE(b6, directory.size, offset + 8)
    IN  writeUInt32LE(b7, directory.offset, offset + 12)

edgeNoWrap(size) == IF 256 < size THEN 0 ELSE size

edge(size) == IF 256 <= size THEN 0 ELSE size

RECURSIVE forEachTarget(_, _, _, _, _)
forEachTarget(buf, ts, k, dirOffset, imgOffset) ==
    IF k > Len(ts)
    THEN buf
    ELSE forEachTarget(
             writeDirectory(buf, dirOffset,
                 [width    |-> edge(ts[k].size),
                  height   |-> edge(ts[k].size),
                  colors   |-> 0,
                  reserved |-> 0,
                  planes   |-> 1,
                  bpp      |-> 32,
                  size     |-> ts[k].statSize,
                  offset   |-> imgOffset]),
             ts, k + 1,
             dirOffset + IcoSpec.directorySize,
             imgOffset + ts[k].statSize)

writeDirectoriesNoTable(buf, ts) ==
    forEachTarget(buf, ts, 1, IcoSpec.headerSize, IcoSpec.headerSize)

writeDirectories(buf, ts) ==
    forEachTarget(buf, ts, 1, IcoSpec.headerSize,
                  IcoSpec.headerSize + (IcoSpec.directorySize * Len(ts)))

readHeader(buf) ==
    [reserved |-> readUInt16LE(buf, 0),
     type     |-> readUInt16LE(buf, 2),
     count    |-> readUInt16LE(buf, 4)]

readDirectory(buf, offset) ==
    [width    |-> readUInt8(buf, 0),
     height   |-> readUInt8(buf, offset + 1),
     colors   |-> readUInt8(buf, offset + 2),
     reserved |-> readUInt8(buf, offset + 3),
     planes   |-> readUInt16LE(buf, offset + 4),
     bpp      |-> readUInt16LE(buf, offset + 6),
     size     |-> readUInt32LE(buf, offset + 8),
     offset   |-> readUInt32LE(buf, offset + 12)]

(***************************************************************************)
(* filter: images.filter over the records whose size some element of       *)
(* IcoImageSizes equals; an absent or empty argument gives [].             *)
(***************************************************************************)
filterSkipsLast(imgs) ==
    IF ~(imgs.defined /\ 0 < Len(imgs.value))
    THEN <<>>
    ELSE SelectSeq(imgs.value,
             LAMBDA image : \E s \in 1..(Len(IcoImageSizes) - 1) :
                                image.size = IcoImageSizes[s])

filter(imgs) ==
    IF ~(imgs.defined /\ 0 < Len(imgs.value))
    THEN <<>>
    ELSE SelectSeq(imgs.value,
             LAMBDA image : \E s \in 1..Len(IcoImageSizes) :
                                image.size = IcoImageSizes[s])

(***************************************************************************)
(* Initial states.                                                         *)
(***************************************************************************)
NoImages == [defined |-> FALSE, value |-> <<>>]
NoResult == [returned |-> FALSE, value |-> <<>>]

WriterIdle ==
    /\ pc = "start"
    /\ buffer = <<>>
    /\ stream = "none"
    /\ sink = <<>>
    /\ tasks = <<>>
    /\ chain = 0
    /\ handler = "then"
    /\ cbCalls = <<>>

Init ==
    /\ targets \in SeqsUpTo(TargetRecords, MaxTargets)
    /\ destParent \in {"dir", "missing"}
    /\ cbThrows \in BOOLEAN
    /\ WriterIdle
    /\ images = NoImages
    /\ filtered = NoResult

FilterInit ==
    /\ targets = <<>>
    /\ destParent = "dir"
    /\ cbThrows = FALSE
    /\ WriterIdle
    /\ images \in {NoImages} \cup
                  {[defined |-> TRUE, value |-> v] :
                       v \in SeqsUpTo(ImageRecords, MaxImages)}
    /\ filtered = NoResult

(***************************************************************************)
(* write: the synchronous body.  Fs.statSync throws when the parent        *)
(* directory is missing; stat.isDirectory is a function, hence truthy.     *)
(* writeImages starts every Fs.readFile and builds the reduce chain, whose *)
(* reactions run as microtasks after write has returned.                   *)
(***************************************************************************)
write ==
    /\ pc = "start"
    /\ IF ~(Len(targets) > 0)
       THEN /\ cbCalls' = Append(cbCalls, "InvalidArguments")
            /\ pc' = IF cbThrows THEN "threw" ELSE "returned"
            /\ UNCHANGED <<buffer, stream, sink, tasks>>
       ELSE IF destParent = "missing"
       THEN /\ pc' = "threw"
            /\ UNCHANGED <<cbCalls, buffer, stream, sink, tasks>>
       ELSE \E garbage \in GarbageBytes :
            /\ buffer' = writeDirectories(
                             writeHeader(
                                 newBuffer(IcoSpec.headerSize
                                     + (IcoSpec.directorySize * Len(targets)),
                                     garbage),
                                 1, Len(targets)),
                             targets)
            /\ stream' = "open"
            /\ sink' = Append(sink, 0)
            /\ tasks' = [i \in 1..Len(targets) |-> "reading"]
            /\ pc' = "microtasks"
            /\ UNCHANGED cbCalls
    /\ UNCHANGED <<targets, destParent, cbThrows, chain, handler,
                   images, filtered>>

(***************************************************************************)
(* prev.then(current): current is a promise, not a function, so the        *)
(* derived promise takes the value of prev whatever current does.          *)
(***************************************************************************)
passThrough ==
    /\ pc = "microtasks"
    /\ chain < Len(targets)
    /\ chain' = chain + 1
    /\ UNCHANGED <<targets, destParent, cbThrows, pc, buffer, stream, sink,
                   tasks, handler, cbCalls, images, filtered>>

(***************************************************************************)
(* .then( () => { cb(); } )                                                *)
(***************************************************************************)
onFulfilled ==
    /\ pc = "microtasks"
    /\ chain = Len(targets)
    /\ handler = "then"
    /\ cbCalls' = Append(cbCalls, "none")
    /\ IF cbThrows
       THEN handler' = "catch" /\ pc' = pc
       ELSE handler' = "settled" /\ pc' = "io"
    /\ UNCHANGED <<targets, destParent, cbThrows, buffer, stream, sink,
                   tasks, chain, images, filtered>>

(***************************************************************************)
(* .catch( ( err ) => { cb( err ); } ): reached only when cb() threw.      *)
(***************************************************************************)
onRejected ==
    /\ pc = "microtasks"
    /\ handler = "catch"
    /\ cbCalls' = Append(cbCalls, "CallbackError")
    /\ handler' = "settled"
    /\ pc' = "io"
    /\ UNCHANGED <<targets, destParent, cbThrows, buffer, stream, sink,
                   tasks, chain, images, filtered>>

(***************************************************************************)
(* The callback of Fs.readFile for target i.  I/O callbacks run once the   *)
(* microtask queue is empty.  reject(err) settles a promise nobody         *)
(* listens to.                                                             *)
(***************************************************************************)
readFileDone(i) ==
    /\ pc = "io"
    /\ tasks[i] = "reading"
    /\ \E err \in BOOLEAN :
           IF err
           THEN /\ tasks' = [tasks EXCEPT ![i] = "rejected"]
                /\ UNCHANGED sink
           ELSE /\ sink' = Append(sink, i)
                /\ tasks' = [tasks EXCEPT ![i] = "resolved"]
    /\ UNCHANGED <<targets, destParent, cbThrows, pc, buffer, stream,
                   chain, handler, cbCalls, images, filtered>>

filterCall ==
    /\ ~filtered.returned
    /\ filtered' = [returned |-> TRUE, value |-> filter(images)]
    /\ UNCHANGED <<writerVars, images>>

Next ==
    \/ write
    \/ passThrough
    \/ onFulfilled
    \/ onRejected
    \/ \E i \in 1..Len(targets) : readFileDone(i)

FilterNext == filterCall

Spec == Init /\ [][Next]_vars

FilterSpec == FilterInit /\ [][FilterNext]_vars

(***************************************************************************)
(* Vocabulary of the properties.                                           *)
(***************************************************************************)
N == Len(targets)

Built == pc \in {"microtasks", "io"}

Quiescent ==
    \/ pc \in {"returned", "threw"}
    \/ pc = "io" /\ \A i \in 1..N : tasks[i] # "reading"

EntryOffset(i) == 6 + 16 * (i - 1)

RECURSIVE SumStatSize(_)
SumStatSize(n) == IF n = 0 THEN 0 ELSE SumStatSize(n - 1) + targets[n].statSize

CalledWith(e) == \E k \in 1..Len(cbCalls) : cbCalls[k] = e

AllowedSizes == {16, 24, 32, 48, 64, 128, 256}

Kept == {i \in 1..Len(images.value) : images.value[i].size \in AllowedSizes}

Rank(i) == Cardinality({j \in Kept : j <= i})

(***************************************************************************)
(* C1: the payload chunks reach the stream in input order: target i is     *)
(* written before target j whenever i < j, in whatever order the reads     *)
(* complete.                                                               *)
(***************************************************************************)
PayloadInInputOrder ==
    \A a, b \in 2..Len(sink) : a < b => sink[a] < sink[b]

(***************************************************************************)
(* C2: when cb has been called with no error, the stream has received the  *)
(* header + directory block followed by the payload of every target.       *)
(***************************************************************************)
NoErrorAfterAllPayloads ==
    CalledWith("none") =>
        /\ Len(sink) = N + 1
        /\ sink[1] = 0
        /\ \A i \in 1..N : \E k \in 2..Len(sink) : sink[k] = i

(***************************************************************************)
(* C3: if the read of some target failed, cb is called with the read error *)
(* and is not called with no error.                                        *)
(***************************************************************************)
ReadFailureFailsWrite ==
    (Quiescent /\ pc = "io" /\ \E i \in 1..N : tasks[i] = "rejected") =>
        /\ CalledWith("ReadError")
        /\ ~CalledWith("none")

(***************************************************************************)
(* C4: cb is called exactly once per call of write: never twice, and once  *)
(* when nothing is left to run.                                            *)
(***************************************************************************)
CallbackExactlyOnce ==
    /\ Len(cbCalls) <= 1
    /\ Quiescent => Len(cbCalls) = 1

(***************************************************************************)
(* C5: with targets and a missing parent directory, write calls cb with an *)
(* InvalidArguments error, and opens no stream and writes no byte.         *)
(***************************************************************************)
MissingParentReported ==
    (pc # "start" /\ N > 0 /\ destParent = "missing") =>
        /\ cbCalls = <<"InvalidArguments">>
        /\ stream = "none"
        /\ sink = <<>>

(***************************************************************************)
(* C6: a stream that write opened is closed once the call has run to its   *)
(* end, on success and on a read failure.                                  *)
(***************************************************************************)
StreamReleasedAtExit ==
    (Quiescent /\ Len(sink) > 0) => stream = "closed"

(***************************************************************************)
(* C7: readHeader and readDirectory(buffer, 6 + 16*i) give back the count  *)
(* and the width, height, dataSize and dataOffset written for each target. *)
(***************************************************************************)
RoundTrip ==
    Built =>
        /\ readHeader(buffer).count = N
        /\ \A i \in 1..N :
               LET d == readDirectory(buffer, EntryOffset(i))
               IN  /\ d.width = (IF targets[i].size >= 256 THEN 0
                                 ELSE targets[i].size)
                   /\ d.height = (IF targets[i].size >= 256 THEN 0
                                  ELSE targets[i].size)
                   /\ d.size = targets[i].statSize
                   /\ d.offset = 6 + 16 * N + SumStatSize(i - 1)

(***************************************************************************)
(* C8: the dataOffset of entry i is 6 + 16*N plus the byte lengths of the  *)
(* targets before it; entry 0 starts right after the directory table and   *)
(* each later offset is the previous offset plus the previous dataSize.    *)
(***************************************************************************)
DataOffsetsAccumulate ==
    Built =>
        \A i \in 1..N :
            /\ readUInt32LE(buffer, EntryOffset(i) + 12)
                   = 6 + 16 * N + SumStatSize(i - 1)
            /\ i = 1 => readUInt32LE(buffer, EntryOffset(i) + 12) = Len(buffer)
            /\ i > 1 => readUInt32LE(buffer, EntryOffset(i) + 12)
                            = readUInt32LE(buffer, EntryOffset(i - 1) + 12)
                              + readUInt32LE(buffer, EntryOffset(i - 1) + 8)

DataOffsetsWitness ==
    /\ Built
    /\ N = 2
    /\ targets[1].statSize = 500
    /\ readUInt32LE(buffer, EntryOffset(2) + 12) = 538

(***************************************************************************)
(* C9: the stored width and height bytes of every entry are equal; they    *)
(* are 0 for a target of size 256 and the size itself below 256.           *)
(***************************************************************************)
WidthHeightWrap ==
    Built =>
        \A i \in 1..N :
            LET w == buffer[EntryOffset(i) + 1]
                h == buffer[EntryOffset(i) + 2]
            IN  /\ w = h
                /\ targets[i].size = 256 => w = 0
                /\ targets[i].size < 256 => w = targets[i].size

WidthHeightWitness ==
    /\ Built
    /\ \E i, j \in 1..N :
           /\ targets[i].size = 256 /\ buffer[EntryOffset(i) + 1] = 0
           /\ targets[j].size = 16 /\ buffer[EntryOffset(j) + 1] = 16

(***************************************************************************)
(* C10: filter returns exactly the records whose size is one of 16, 24,    *)
(* 32, 48, 64, 128, 256, in their original order, records of equal size    *)
(* all kept; an empty or absent argument gives the empty sequence.         *)
(***************************************************************************)
FilterKeepsAllowedInOrder ==
    filtered.returned =>
        IF images.defined
        THEN /\ Len(filtered.value) = Cardinality(Kept)
             /\ \A i \in Kept : filtered.value[Rank(i)] = images.value[i]
        ELSE filtered.value = <<>>

FilterWitness ==
    /\ filtered.returned
    /\ images.defined
    /\ Len(images.value) = 3
    /\ images.value[1].size = 256
    /\ images.value[2].size = 17
    /\ images.value[3].size = 256
    /\ images.value[1] # images.value[3]
    /\ filtered.value = <<images.value[1], images.value[3]>>

====
